---- MODULE Spec2Model ----
(***************************************************************************)
(* cargo-xcode: generation of an Xcode project (project.pbxproj) from the  *)
(* targets of a Cargo package.  Model of src/src/lib.rs (Generator) and of  *)
(* the package filter of src/src/main.rs.                                   *)
(*                                                                          *)
(* Strings are sequences of atoms: an atom is one character of an input     *)
(* string ("a", "-", "_") or one literal of the source ("lib", ".dylib").   *)
(* The empty string is << >>.  An Option is << >> (None) or <<x>> (Some).   *)
(***************************************************************************)
EXTENDS Integers, Sequences, FiniteSets, TLC

VARIABLES
    pc,          \* position in main / Generator::write_pbxproj
    package,     \* Generator.package
    output_dir,  \* Generator.output_dir
    id_base,     \* Generator.id_base: the bytes fed to the hasher so far
    rust_targets,\* pbxproj's local rust_targets: what project_targets returned
    proj_data,   \* write_pbxproj's local proj_data: Some(document) once built
    result,      \* what write_pbxproj returned: None, Ok(path) or Err(step)
    fs_dirs,     \* the filesystem: the directories that exist
    fs_files,    \* the filesystem: existing file |-> its content
    fs_before,   \* fs_files as it was when write_pbxproj was called
    generated,   \* the log of pbxproj calls: input and returned document
    runs,        \* how many Generators have been constructed
    meta_packages, \* main's meta.packages: Some(the packages not yet iterated)
    stdout,      \* the lines main printed
    stderr       \* the lines main printed as errors

vars == <<pc, package, output_dir, id_base, rust_targets, proj_data, result,
          fs_dirs, fs_files, fs_before, generated, runs, meta_packages, stdout, stderr>>

-----------------------------------------------------------------------------
(* Bounds of the model *)

\* the longest target list of a package
MaxTargets == 2
\* the number of Generators constructed one after another (regeneration)
MaxRuns == 2

-----------------------------------------------------------------------------
(* Generic helpers *)

None == << >>
Some(x) == <<x>>

RECURSIVE Flatten(_)
Flatten(ss) == IF ss = << >> THEN << >> ELSE Head(ss) \o Flatten(Tail(ss))

\* [T]::join(sep) on a list of strings
RECURSIVE join(_, _)
join(list, sep) ==
    IF list = << >> THEN << >>
    ELSE IF Len(list) = 1 THEN list[1]
    ELSE list[1] \o <<sep>> \o join(Tail(list), sep)

\* str::replace(from, to), one character for one character
replace(s, from, to) ==
    [i \in 1..Len(s) |-> IF s[i] = from THEN to ELSE s[i]]

\* the file extensions that occur in the build-tool file names
Extensions == {".dylib", ".a", ".d"}

\* Path::new(name).with_extension("d").file_name() for a name that holds
\* no '/' and no '.' outside its extension
dep_file_name(cargo_file_name) ==
    IF cargo_file_name # << >> /\ cargo_file_name[Len(cargo_file_name)] \in Extensions
    THEN SubSeq(cargo_file_name, 1, Len(cargo_file_name) - 1) \o <<".d">>
    ELSE cargo_file_name \o <<".d">>

RECURSIVE CommonPrefixLen(_, _)
CommonPrefixLen(a, b) ==
    IF a = << >> \/ b = << >> \/ Head(a) # Head(b) THEN 0
    ELSE 1 + CommonPrefixLen(Tail(a), Tail(b))

\* A path is the sequence of its components, each a string; the first
\* component of an absolute path is the root, "/".
is_absolute(path) == path # << >> /\ path[1] = <<"/">>

\* Path::display(): the components joined by '/', after the root if any
display(path) ==
    IF is_absolute(path) THEN <<"/">> \o join(Tail(path), "/") ELSE join(path, "/")

\* pathdiff::diff_paths(path, base) for paths without "." or "..": an
\* absolute path against a relative base is returned as it is, a relative
\* path against an absolute base has no answer
diff_paths(path, base) ==
    IF is_absolute(path) # is_absolute(base)
    THEN (IF is_absolute(path) THEN Some(path) ELSE None)
    ELSE LET n == CommonPrefixLen(path, base)
         IN  Some([i \in 1..(Len(base) - n) |-> <<"..">>] \o SubSeq(path, n + 1, Len(path)))

-----------------------------------------------------------------------------
(* The hasher and Generator::make_id *)

Sha1_new == << >>
Sha1_update(sha, bytes) == sha \o bytes

\* Sha1::digest(): the digest of the bytes hashed, 20 bytes.  Its value is
\* not computed: it is taken as injective on the bytes hashed and stands
\* for them.
Sha1_digest(sha) == [of |-> sha, first |-> 0, bytes |-> 20]

\* digest.bytes()[first..end]: a slice of the bytes of a digest
bytes_slice(digest, first, end) ==
    [of |-> digest.of, first |-> digest.first + first, bytes |-> end - first]

\* for byte in bytes { out.push_str(&format!("{:02X}", byte)) }: the run of
\* uppercase hexadecimal digits of a slice, two digits for each byte
push_hex(out, bytes) == out \o <<[hex |-> bytes, digits |-> 2 * bytes.bytes]>>

make_id_no_kind(base, kind, name) ==
    push_hex(<<"CA60">>,
             bytes_slice(Sha1_digest(Sha1_update(Sha1_update(base, <<"\\0">>), name)), 0, 10))

\* An identifier is the literal "CA60" and the run of digits of the first
\* ten bytes of the digest.
make_id(base, kind, name) ==
    push_hex(<<"CA60">>,
             bytes_slice(Sha1_digest(Sha1_update(Sha1_update(Sha1_update(base, kind),
                                                             <<"\\0">>), name)), 0, 10))

Generator_new_id_base_shared(pkg) == Sha1_update(id_base, pkg.id)

Generator_new_id_base_targets(pkg) ==
    Sha1_update(Sha1_new, pkg.id \o Flatten([i \in 1..Len(pkg.targets) |-> pkg.targets[i].name]))

Generator_new_id_base_run_counter(pkg) ==
    Sha1_update(Sha1_new, IF runs = 0 THEN pkg.id ELSE pkg.id \o <<"+">>)

\* Generator::new: a fresh hasher fed the package identity
Generator_new_id_base(pkg) == Sha1_update(Sha1_new, pkg.id)

-----------------------------------------------------------------------------
(* Generator::project_targets *)

STATIC_LIB_APPLE_PRODUCT_TYPE == "com.apple.product-type.library.static"
EXECUTABLE_APPLE_PRODUCT_TYPE == "com.apple.product-type.tool"
DYNAMIC_LIB_APPLE_PRODUCT_TYPE == "com.apple.product-type.library.dynamic"

RecognizedKinds == {"bin", "cdylib", "staticlib"}

KindTuple_hyphens_kept(kind, base_name) ==
    CASE kind = "bin" ->
           [cargo_file_name |-> base_name,
            xcode_file_name |-> base_name,
            xcode_product_name |-> base_name,
            file_type |-> "compiled.mach-o.executable",
            prod_type |-> EXECUTABLE_APPLE_PRODUCT_TYPE,
            skip_install |-> FALSE]
      [] kind = "cdylib" ->
           [cargo_file_name |-> <<"lib">> \o base_name \o <<".dylib">>,
            xcode_file_name |-> base_name \o <<".dylib">>,
            xcode_product_name |-> base_name,
            file_type |-> "compiled.mach-o.dylib",
            prod_type |-> DYNAMIC_LIB_APPLE_PRODUCT_TYPE,
            skip_install |-> FALSE]
      [] kind = "staticlib" ->
           [cargo_file_name |-> <<"lib">> \o base_name \o <<".a">>,
            xcode_file_name |-> <<"lib">> \o base_name \o <<"_static", ".a">>,
            xcode_product_name |-> base_name \o <<"_static">>,
            file_type |-> "archive.ar",
            prod_type |-> STATIC_LIB_APPLE_PRODUCT_TYPE,
            skip_install |-> TRUE]

\* the match on kind.as_str(): the tuple of a recognized kind
KindTuple(kind, base_name) ==
    CASE kind = "bin" ->
           [cargo_file_name |-> base_name,
            xcode_file_name |-> base_name,
            xcode_product_name |-> base_name,
            file_type |-> "compiled.mach-o.executable",
            prod_type |-> EXECUTABLE_APPLE_PRODUCT_TYPE,
            skip_install |-> FALSE]
      [] kind = "cdylib" ->
           [cargo_file_name |-> <<"lib">> \o replace(base_name, "-", "_") \o <<".dylib">>,
            xcode_file_name |-> base_name \o <<".dylib">>,
            xcode_product_name |-> base_name,
            file_type |-> "compiled.mach-o.dylib",
            prod_type |-> DYNAMIC_LIB_APPLE_PRODUCT_TYPE,
            skip_install |-> FALSE]
      [] kind = "staticlib" ->
           [cargo_file_name |-> <<"lib">> \o replace(base_name, "-", "_") \o <<".a">>,
            xcode_file_name |-> <<"lib">> \o base_name \o <<"_static", ".a">>,
            xcode_product_name |-> base_name \o <<"_static">>,
            file_type |-> "archive.ar",
            prod_type |-> STATIC_LIB_APPLE_PRODUCT_TYPE,
            skip_install |-> TRUE]

XcodeTarget_features_for_all(target, kind) ==
    LET base_name == target.name
        required_features == join(target.required_features, ",")
        m == KindTuple(kind, base_name)
        flags0 == IF m.prod_type = EXECUTABLE_APPLE_PRODUCT_TYPE
                  THEN <<"--bin ">> \o base_name
                  ELSE <<"--lib">>
        compiler_flags ==
            IF required_features # << >>
            THEN flags0 \o <<" --features '">> \o required_features \o <<"'">>
            ELSE flags0
    IN  [kind |-> kind,
         compiler_flags |-> compiler_flags,
         supported_platforms |->
            IF m.prod_type = STATIC_LIB_APPLE_PRODUCT_TYPE
            THEN "macosx iphonesimulator iphoneos appletvsimulator appletvos"
            ELSE "macosx",
         base_name |-> base_name,
         cargo_file_name |-> m.cargo_file_name,
         xcode_file_name |-> m.xcode_file_name,
         xcode_product_name |-> m.xcode_product_name,
         file_type |-> m.file_type,
         prod_type |-> m.prod_type,
         skip_install |-> m.skip_install]

\* the closure of filter_map for a recognized kind: one XcodeTarget
XcodeTarget(target, kind) ==
    LET base_name == target.name
        required_features == join(target.required_features, ",")
        m == KindTuple(kind, base_name)
        flags0 == IF m.prod_type = EXECUTABLE_APPLE_PRODUCT_TYPE
                  THEN <<"--bin ">> \o base_name
                  ELSE <<"--lib">>
        compiler_flags ==
            IF m.prod_type = EXECUTABLE_APPLE_PRODUCT_TYPE /\ required_features # << >>
            THEN flags0 \o <<" --features '">> \o required_features \o <<"'">>
            ELSE flags0
    IN  [kind |-> kind,
         compiler_flags |-> compiler_flags,
         supported_platforms |->
            IF m.prod_type = STATIC_LIB_APPLE_PRODUCT_TYPE
            THEN "macosx iphonesimulator iphoneos appletvsimulator appletvos"
            ELSE "macosx",
         base_name |-> base_name,
         cargo_file_name |-> m.cargo_file_name,
         xcode_file_name |-> m.xcode_file_name,
         xcode_product_name |-> m.xcode_product_name,
         file_type |-> m.file_type,
         prod_type |-> m.prod_type,
         skip_install |-> m.skip_install]

match_arm_lib_as_static(kind) ==
    IF kind \in RecognizedKinds THEN kind
    ELSE IF kind = "lib" THEN "staticlib" ELSE "_"

\* which arm of `match kind.as_str()` a kind string takes
match_arm(kind) == IF kind \in RecognizedKinds THEN kind ELSE "_"

\* target.kind.iter().filter_map(..): the XcodeTargets of one target
RECURSIVE target_kinds(_, _)
target_kinds(target, kinds) ==
    IF kinds = << >> THEN << >>
    ELSE (IF match_arm(Head(kinds)) = "_"
          THEN << >>
          ELSE <<XcodeTarget(target, match_arm(Head(kinds)))>>)
         \o target_kinds(target, Tail(kinds))

\* self.package.targets.iter().flat_map(..).collect()
project_targets(pkg) ==
    Flatten([i \in 1..Len(pkg.targets) |->
                target_kinds(pkg.targets[i], pkg.targets[i].kind)])

-----------------------------------------------------------------------------
(* Generator::products_pbxproj: the objects of one XcodeTarget.  Every     *)
(* string of an object is a sequence of atoms, every reference an id.      *)

target_ids_debug_as_release(base, target) ==
    LET prod_id == make_id(base, <<target.file_type>>, target.cargo_file_name)
    IN  [prod_id |-> prod_id,
         target_id |-> make_id(base, <<target.file_type>>, prod_id),
         conf_list_id |-> make_id(base, <<"<config-list>">>, prod_id),
         conf_release_id |-> make_id(base, <<"<config-release>">>, prod_id),
         conf_debug_id |-> make_id(base, <<"<config-release>">>, prod_id),
         compile_cargo_id |-> make_id(base, <<"<cargo>">>, prod_id),
         manifest_path_build_object_id |-> make_id(base, <<"<cargo-toml>">>, prod_id)]

target_ids_by_base_name(base, target) ==
    LET prod_id == make_id(base, <<"<product>">>, target.base_name)
    IN  [prod_id |-> prod_id,
         target_id |-> make_id(base, <<target.file_type>>, prod_id),
         conf_list_id |-> make_id(base, <<"<config-list>">>, prod_id),
         conf_release_id |-> make_id(base, <<"<config-release>">>, prod_id),
         conf_debug_id |-> make_id(base, <<"<config-debug>">>, prod_id),
         compile_cargo_id |-> make_id(base, <<"<cargo>">>, prod_id),
         manifest_path_build_object_id |-> make_id(base, <<"<cargo-toml>">>, prod_id)]

\* the seven make_id calls at the head of the loop body
target_ids(base, target) ==
    LET prod_id == make_id(base, <<target.file_type>>, target.cargo_file_name)
    IN  [prod_id |-> prod_id,
         target_id |-> make_id(base, <<target.file_type>>, prod_id),
         conf_list_id |-> make_id(base, <<"<config-list>">>, prod_id),
         conf_release_id |-> make_id(base, <<"<config-release>">>, prod_id),
         conf_debug_id |-> make_id(base, <<"<config-debug>">>, prod_id),
         compile_cargo_id |-> make_id(base, <<"<cargo>">>, prod_id),
         manifest_path_build_object_id |-> make_id(base, <<"<cargo-toml>">>, prod_id)]

\* targets.push(..): the PBXNativeTarget
native_target_object(ids, target, build_rule_id, lipo_script_id) ==
    [id |-> ids.target_id,
     isa |-> "PBXNativeTarget",
     buildConfigurationList |-> ids.conf_list_id,
     buildPhases |-> <<ids.compile_cargo_id, lipo_script_id>>,
     buildRules |-> <<build_rule_id>>,
     dependencies |-> << >>,
     name |-> target.base_name \o <<"-", target.kind>>,
     productName |-> target.xcode_file_name,
     productReference |-> ids.prod_id,
     productType |-> <<target.prod_type>>]

\* other.push(..): the PBXSourcesBuildPhase
sources_phase_object(ids) ==
    [id |-> ids.compile_cargo_id,
     isa |-> "PBXSourcesBuildPhase",
     buildActionMask |-> 2147483647,
     files |-> <<ids.manifest_path_build_object_id>>,
     runOnlyForDeploymentPostprocessing |-> 0]

\* buildfile.push(..): the PBXBuildFile of the manifest
build_file_object(ids, target, manifest_path_id) ==
    [id |-> ids.manifest_path_build_object_id,
     isa |-> "PBXBuildFile",
     fileRef |-> manifest_path_id,
     settings |-> [k \in {"COMPILER_FLAGS"} |-> target.compiler_flags]]

\* other.push(..): the XCConfigurationList of the target
target_conf_list_object(ids) ==
    [id |-> ids.conf_list_id,
     isa |-> "XCConfigurationList",
     buildConfigurations |-> <<ids.conf_release_id, ids.conf_debug_id>>,
     defaultConfigurationIsVisible |-> 0,
     defaultConfigurationName |-> <<"Release">>]

skip_install_flags_always(target) ==
    [k \in {"SKIP_INSTALL", "INSTALL_GROUP", "INSTALL_MODE_FLAG", "INSTALL_OWNER"} |->
        IF k = "SKIP_INSTALL" THEN <<"YES">> ELSE << >>]

\* skip_install_flags
skip_install_flags(target) ==
    IF target.skip_install
    THEN [k \in {"SKIP_INSTALL", "INSTALL_GROUP", "INSTALL_MODE_FLAG", "INSTALL_OWNER"} |->
            IF k = "SKIP_INSTALL" THEN <<"YES">> ELSE << >>]
    ELSE [k \in {} |-> << >>]

\* the buildSettings of the two XCBuildConfigurations of a target
target_build_settings(target) ==
    LET skip == skip_install_flags(target)
        own == {"PRODUCT_NAME", "CARGO_XCODE_CARGO_FILE_NAME",
                "CARGO_XCODE_CARGO_DEP_FILE_NAME", "SUPPORTED_PLATFORMS"}
    IN  [k \in own \cup DOMAIN skip |->
            CASE k = "PRODUCT_NAME" -> target.xcode_product_name
              [] k = "CARGO_XCODE_CARGO_FILE_NAME" -> target.cargo_file_name
              [] k = "CARGO_XCODE_CARGO_DEP_FILE_NAME" -> dep_file_name(target.cargo_file_name)
              [] k = "SUPPORTED_PLATFORMS" -> <<target.supported_platforms>>
              [] OTHER -> skip[k]]

\* other.extend([(conf_release_id, "Release"), (conf_debug_id, "Debug")]..)
target_configuration_objects(ids, target) ==
    LET pairs == <<<<ids.conf_release_id, "Release">>, <<ids.conf_debug_id, "Debug">>>>
    IN  [i \in 1..2 |->
            [id |-> pairs[i][1],
             isa |-> "XCBuildConfiguration",
             buildSettings |-> target_build_settings(target),
             name |-> <<pairs[i][2]>>]]

\* filereference.push(..): the PBXFileReference of the product
product_reference_object(ids, target) ==
    [id |-> ids.prod_id,
     isa |-> "PBXFileReference",
     explicitFileType |-> <<target.file_type>>,
     includeInIndex |-> 0,
     name |-> target.xcode_file_name,
     sourceTree |-> <<"BUILT_PRODUCTS_DIR">>]

\* the loop over cargo_targets, collected as XcodeSections
products_pbxproj(base, cargo_targets, manifest_path_id, build_rule_id, lipo_script_id) ==
    LET ids(i) == target_ids(base, cargo_targets[i])
        n == Len(cargo_targets)
    IN  [targets |-> [i \in 1..n |->
                        native_target_object(ids(i), cargo_targets[i],
                                             build_rule_id, lipo_script_id)],
         product_ids |-> [i \in 1..n |-> ids(i).prod_id],
         buildfile |-> [i \in 1..n |->
                        build_file_object(ids(i), cargo_targets[i], manifest_path_id)],
         other |-> Flatten([i \in 1..n |->
                        <<sources_phase_object(ids(i)), target_conf_list_object(ids(i))>>
                        \o target_configuration_objects(ids(i), cargo_targets[i])]),
         filereference |-> [i \in 1..n |->
                        product_reference_object(ids(i), cargo_targets[i])]]

-----------------------------------------------------------------------------
(* Generator::pbxproj *)

LIBRESOLV_FILE_ID == <<"ADDEDBA66A6E1">>
LIBRESOLV_GROUP_ID == <<"ADDEDBA66A6E2">>

\* the ten make_id calls at the head of pbxproj
project_ids(base) ==
    [main_group_id |-> make_id(base, << >>, <<"<root>">>),
     prod_group_id |-> make_id(base, << >>, <<"Products">>),
     frameworks_group_id |-> make_id(base, << >>, <<"Frameworks">>),
     project_id |-> make_id(base, << >>, <<"<project>">>),
     build_rule_id |-> make_id(base, << >>, <<"BuildRule">>),
     lipo_script_id |-> make_id(base, << >>, <<"LipoScript">>),
     conf_list_id |-> make_id(base, << >>, <<"<configuration-list>">>),
     conf_release_id |-> make_id(base, <<"configuration">>, <<"Release">>),
     conf_debug_id |-> make_id(base, <<"configuration">>, <<"Debug">>),
     manifest_path_id |-> make_id(base, << >>, <<"Cargo.toml">>)]

has_static_dynamic(cargo_targets) ==
    \E i \in 1..Len(cargo_targets) :
        cargo_targets[i].prod_type = DYNAMIC_LIB_APPLE_PRODUCT_TYPE

\* cargo_targets.iter().any(|t| t.prod_type == STATIC_LIB_APPLE_PRODUCT_TYPE)
has_static(cargo_targets) ==
    \E i \in 1..Len(cargo_targets) :
        cargo_targets[i].prod_type = STATIC_LIB_APPLE_PRODUCT_TYPE

\* cargo_toml_path
cargo_toml_path(pkg, od) ==
    IF od # None THEN diff_paths(pkg.manifest_path, od[1])[1] ELSE <<<<"Cargo.toml">>>>

\* sections.filereference.push(..): the PBXFileReference of the manifest
manifest_reference_object(manifest_path_id, pkg, od) ==
    [id |-> manifest_path_id,
     isa |-> "PBXFileReference",
     lastKnownFileType |-> <<"text">>,
     fileEncoding |-> 4,
     name |-> <<"Cargo.toml">>,
     path |-> display(cargo_toml_path(pkg, od)),
     sourceTree |-> <<"<group>">>]

\* the two objects pushed under `if has_static`
libresolv_reference_object ==
    [id |-> LIBRESOLV_FILE_ID,
     isa |-> "PBXFileReference",
     lastKnownFileType |-> <<"sourcecode.text-based-dylib-definition">>,
     name |-> <<"libresolv.tbd">>,
     path |-> <<"usr/lib/libresolv.tbd">>,
     sourceTree |-> <<"SDKROOT">>]

libresolv_group_object_dangling ==
    [id |-> LIBRESOLV_GROUP_ID,
     isa |-> "PBXGroup",
     children |-> <<<<"ADDEDBA66A6E3">>>>,
     name |-> <<"Required for static linking">>,
     sourceTree |-> <<"<group>">>]

libresolv_group_object ==
    [id |-> LIBRESOLV_GROUP_ID,
     isa |-> "PBXGroup",
     children |-> <<LIBRESOLV_FILE_ID>>,
     name |-> <<"Required for static linking">>,
     sourceTree |-> <<"<group>">>]

\* a PBXGroup of the template
group_object(id, name, children) ==
    [id |-> id,
     isa |-> "PBXGroup",
     children |-> children,
     name |-> name,
     sourceTree |-> <<"<group>">>]

\* str::escape_default(): a backslash before '"', '\'' and '\\', and "\\n"
\* for a newline
escape_default(str) ==
    Flatten([i \in 1..Len(str) |->
                CASE str[i] = "\"" -> <<"\\", "\"">>
                  [] str[i] = "'" -> <<"\\", "'">>
                  [] str[i] = "\\" -> <<"\\", "\\">>
                  [] str[i] = "\n" -> <<"\\", "n">>
                  [] OTHER -> <<str[i]>>])

\* the head of the literal build_script: its lines, quotes included
build_script ==
    <<"\n", "set -eu; export PATH=$PATH:~/.cargo/bin:/usr/local/bin;", "\n",
      "if [ ", "\"", "${IS_MACCATALYST-NO}", "\"", " = YES ]; then", "\n">>

\* the PBXBuildRule of the template
build_rule_object(build_rule_id) ==
    [id |-> build_rule_id,
     isa |-> "PBXBuildRule",
     compilerSpec |-> <<"com.apple.compilers.proxy.script">>,
     filePatterns |-> <<"*/Cargo.toml">>,
     fileType |-> <<"pattern.proxy">>,
     inputFiles |-> << >>,
     isEditable |-> 0,
     name |-> <<"Cargo project build">>,
     script |-> build_script]

\* the PBXShellScriptBuildPhase of the template
lipo_script_object(lipo_script_id) ==
    [id |-> lipo_script_id,
     isa |-> "PBXShellScriptBuildPhase",
     name |-> <<"Universal Binary lipo">>,
     buildActionMask |-> 2147483647,
     files |-> << >>,
     runOnlyForDeploymentPostprocessing |-> 0,
     shellPath |-> <<"/bin/sh">>,
     shellScript |-> <<"lipo_script">>]

\* common_build_settings and the setting each project configuration adds
project_build_settings(pkg, mode) ==
    [k \in {"ALWAYS_SEARCH_USER_PATHS", "SUPPORTS_MACCATALYST", "CARGO_TARGET_DIR",
            "CARGO_XCODE_FEATURES", "PRODUCT_NAME", "SDKROOT", "CARGO_XCODE_BUILD_MODE"}
           \cup (IF mode = "debug" THEN {"ONLY_ACTIVE_ARCH"} ELSE {}) |->
        CASE k = "ALWAYS_SEARCH_USER_PATHS" -> <<"NO">>
          [] k = "SUPPORTS_MACCATALYST" -> <<"YES">>
          [] k = "CARGO_TARGET_DIR" -> <<"$(PROJECT_TEMP_DIR)/cargo_target">>
          [] k = "CARGO_XCODE_FEATURES" -> << >>
          [] k = "PRODUCT_NAME" -> pkg.name
          [] k = "SDKROOT" -> <<"macosx">>
          [] k = "CARGO_XCODE_BUILD_MODE" -> <<mode>>
          [] k = "ONLY_ACTIVE_ARCH" -> <<"YES">>]

\* the project-wide XCConfigurationList and its two XCBuildConfigurations
project_configuration_objects(p, pkg) ==
    <<[id |-> p.conf_list_id,
       isa |-> "XCConfigurationList",
       buildConfigurations |-> <<p.conf_release_id, p.conf_debug_id>>,
       defaultConfigurationIsVisible |-> 0,
       defaultConfigurationName |-> <<"Release">>],
      [id |-> p.conf_release_id,
       isa |-> "XCBuildConfiguration",
       buildSettings |-> project_build_settings(pkg, "release"),
       name |-> <<"Release">>],
      [id |-> p.conf_debug_id,
       isa |-> "XCBuildConfiguration",
       buildSettings |-> project_build_settings(pkg, "debug"),
       name |-> <<"Debug">>]>>

\* the PBXProject of the template
project_object(p, target_attrs, target_refs) ==
    [id |-> p.project_id,
     isa |-> "PBXProject",
     LastUpgradeCheck |-> 1300,
     TargetAttributes |-> target_attrs,
     buildConfigurationList |-> p.conf_list_id,
     compatibilityVersion |-> <<"Xcode 11.4">>,
     mainGroup |-> p.main_group_id,
     productRefGroup |-> p.prod_group_id,
     targets |-> target_refs]

Reverse(s) == [i \in 1..Len(s) |-> s[Len(s) + 1 - i]]

product_refs_reversed(sections) == Reverse(sections.product_ids)

\* product_refs: sections.product_ids in order
product_refs(sections) == sections.product_ids

\* target_refs and the keys of target_attrs: the ids of sections.targets in order
target_refs(sections) == [i \in 1..Len(sections.targets) |-> sections.targets[i].id]

\* The document pbxproj returns: the comment that opens it, its objects in
\* the order of the template, and the rootObject that closes it.
pbxproj(base, pkg, od) ==
    LET p == project_ids(base)
        cargo_targets == project_targets(pkg)
        sections == products_pbxproj(base, cargo_targets, p.manifest_path_id,
                                     p.build_rule_id, p.lipo_script_id)
        static == has_static(cargo_targets)
        filereference ==
            sections.filereference
            \o <<manifest_reference_object(p.manifest_path_id, pkg, od)>>
            \o (IF static THEN <<libresolv_reference_object>> ELSE << >>)
        groups == IF static THEN <<libresolv_group_object>> ELSE << >>
        frameworks_folder_refs == IF static THEN <<LIBRESOLV_GROUP_ID>> ELSE << >>
        main_folder_refs == <<p.manifest_path_id, p.prod_group_id, p.frameworks_group_id>>
    IN  [header |-> <<"// !$*UTF8*$!">>,
         objects |->
            sections.buildfile
            \o <<build_rule_object(p.build_rule_id)>>
            \o filereference
            \o <<group_object(p.frameworks_group_id, <<"Frameworks">>, frameworks_folder_refs)>>
            \o groups
            \o <<group_object(p.prod_group_id, <<"Products">>, product_refs(sections)),
                 group_object(p.main_group_id, << >>, main_folder_refs)>>
            \o sections.targets
            \o sections.other
            \o <<lipo_script_object(p.lipo_script_id)>>
            \o project_configuration_objects(p, pkg)
            \o <<project_object(p, target_refs(sections), target_refs(sections))>>,
         rootObject |-> p.project_id]

\* what format! writes for "{x}" in a template: a quote, the Display of x as
\* it is, a quote
quoted_value(x) == <<"\"">> \o x \o <<"\"">>

\* The double-quoted values of the definition of an object that are made of
\* a string of the package or of the script: the value and the text written.
quoted_fields(obj) ==
    CASE obj.isa = "PBXNativeTarget" ->
           {[field |-> "name", value |-> obj.name, text |-> quoted_value(obj.name)],
            [field |-> "productName", value |-> obj.productName,
             text |-> quoted_value(obj.productName)]}
      [] obj.isa = "PBXBuildFile" ->
           {[field |-> "COMPILER_FLAGS", value |-> obj.settings["COMPILER_FLAGS"],
             text |-> quoted_value(obj.settings["COMPILER_FLAGS"])]}
      [] obj.isa = "XCBuildConfiguration" ->
           {[field |-> k, value |-> obj.buildSettings[k],
             text |-> quoted_value(obj.buildSettings[k])] :
               k \in DOMAIN obj.buildSettings \cap
                     {"PRODUCT_NAME", "CARGO_XCODE_CARGO_FILE_NAME",
                      "CARGO_XCODE_CARGO_DEP_FILE_NAME"}}
      [] obj.isa = "PBXFileReference" ->
           {[field |-> "name", value |-> obj.name, text |-> quoted_value(obj.name)]}
           \cup (IF "path" \in DOMAIN obj /\ obj.sourceTree = <<"<group>">>
                 THEN {[field |-> "path", value |-> obj.path,
                        text |-> quoted_value(obj.path)]}
                 ELSE {})
      [] obj.isa = "PBXBuildRule" ->
           {[field |-> "script", value |-> obj.script,
             text |-> quoted_value(escape_default(obj.script))]}
      [] OTHER -> {}

\* proj_data.as_bytes(): the document as the pieces write_all writes
as_bytes(doc) ==
    <<[isa |-> "header", text |-> doc.header]>>
    \o doc.objects
    \o <<[isa |-> "rootObject", id |-> doc.rootObject]>>

-----------------------------------------------------------------------------
(* The inputs: packages as cargo metadata reports them.  A package has at  *)
(* most one library target, whose kinds are its crate types, each once;    *)
(* no two targets of a package have the same name and kinds.               *)

Target(name, kind, required_features) ==
    [name |-> name, kind |-> kind, required_features |-> required_features]

TargetNames == {<<"a">>, <<"a", "-", "b">>}
LibKinds == {<<"cdylib">>, <<"staticlib">>, <<"lib", "staticlib", "cdylib">>, <<"rlib">>}
BinFeatures == {<< >>, <<<<"f">>, <<"g">>>>}

\* a library target: required features mean nothing for it, but a manifest
\* may state them and one library target here has some
LibTargets ==
    {Target(n, k, << >>) : n \in TargetNames, k \in LibKinds}
    \cup {Target(<<"a">>, <<"cdylib", "staticlib">>, <<<<"f">>>>)}
BinTargets == {Target(n, <<"bin">>, f) : n \in TargetNames, f \in BinFeatures}
OtherTargets == {Target(<<"a">>, <<"test">>, << >>)}
Targets == LibTargets \cup BinTargets \cup OtherTargets

\* the target lists of at most MaxTargets targets chosen among ts
TargetLists(ts) ==
    {l \in UNION {[1..n -> ts] : n \in 0..MaxTargets} :
        /\ Cardinality({i \in 1..Len(l) : l[i] \in LibTargets}) <= 1
        /\ \A i, j \in 1..Len(l) :
              (l[i].name = l[j].name /\ l[i].kind = l[j].kind) => i = j}

\* identity string, display name, major version and manifest path
PackageHeads ==
    {[id |-> <<"p 1.0.0 (path+file:///w/p)">>, name |-> <<"p">>, version_major |-> 1,
      manifest_path |-> <<<<"/">>, <<"w">>, <<"p">>, <<"Cargo.toml">>>>],
     [id |-> <<"q 2.1.0 (path+file:///w/q)">>, name |-> <<"q">>, version_major |-> 2,
      manifest_path |-> <<<<"/">>, <<"w">>, <<"q">>, <<"Cargo.toml">>>>]}

Package(head, targets) ==
    [id |-> head.id, name |-> head.name, version_major |-> head.version_major,
     manifest_path |-> head.manifest_path, targets |-> targets]

Packages == {Package(h, l) : h \in PackageHeads, l \in TargetLists(Targets)}
\* no output directory, an absolute one and one relative to the working directory
OutputDirs == {None, Some(<<<<"/">>, <<"w">>, <<"out">>>>), Some(<<<<"out">>>>)}

\* Packages whose strings hold a double quote, a backslash or a newline:
\* the directory of the manifest, the target names and a required feature.
QuotedPackageHeads ==
    {[id |-> <<"p 1.0.0 (path+file:///w/p\"x)">>, name |-> <<"p">>, version_major |-> 1,
      manifest_path |-> <<<<"/">>, <<"w">>, <<"p", "\"", "x">>, <<"Cargo.toml">>>>],
     [id |-> <<"q 2.1.0 (path+file:///w/q\\)">>, name |-> <<"q">>, version_major |-> 2,
      manifest_path |-> <<<<"/">>, <<"w">>, <<"q", "\\">>, <<"Cargo.toml">>>>]}
QuotedTargets ==
    {Target(<<"a", "\"", "b">>, <<"bin">>, <<<<"f", "\\">>>>),
     Target(<<"a", "\n", "b">>, <<"cdylib">>, << >>),
     Target(<<"a">>, <<"bin">>, << >>)}
QuotedPackages ==
    {Package(h, l) : h \in QuotedPackageHeads, l \in TargetLists(QuotedTargets)}

\* the packages cargo metadata reports to main: with no target, with a
\* test only, with a bin, with both
MainTargets == {Target(<<"a">>, <<"test">>, << >>), Target(<<"a">>, <<"bin">>, << >>)}
MainPackages == {Package(h, l) : h \in PackageHeads, l \in TargetLists(MainTargets)}
MetaPackageLists == UNION {[1..n -> MainPackages] : n \in 0..MaxRuns}

\* the smaller inputs of the runs that regenerate
RegenTargets ==
    {Target(<<"a", "-", "b">>, <<"bin">>, <<<<"f">>, <<"g">>>>),
     Target(<<"a", "-", "b">>, <<"staticlib", "cdylib">>, << >>)}
RegenPackages == {Package(h, l) : h \in PackageHeads, l \in TargetLists(RegenTargets)}
RegenOutputDirs == {None}

-----------------------------------------------------------------------------
(* main's filter of the packages *)

is_relevant_target_any_kind(target) == target.kind # << >>

\* is_relevant_target
is_relevant_target(target) ==
    \E k \in DOMAIN target.kind : target.kind[k] \in {"bin", "staticlib", "cdylib"}

\* filter_package: retain the relevant targets; None if none is left
filter_package(pkg) ==
    LET targets == SelectSeq(pkg.targets, is_relevant_target)
    IN  IF targets = << >> THEN None ELSE Some([pkg EXCEPT !.targets = targets])

-----------------------------------------------------------------------------
(* The filesystem and Generator::prepare_project_path *)

project_path_next_to_manifest(pkg, od) ==
    SubSeq(pkg.manifest_path, 1, Len(pkg.manifest_path) - 1) \o <<pkg.name \o <<".xcodeproj">>>>

\* format!("{}.xcodeproj", self.package.name), then join / with_file_name
project_path(pkg, od) ==
    LET proj_file_name == pkg.name \o <<".xcodeproj">>
    IN  IF od # None
        THEN od[1] \o <<proj_file_name>>
        ELSE SubSeq(pkg.manifest_path, 1, Len(pkg.manifest_path) - 1) \o <<proj_file_name>>

\* proj_path.join("project.pbxproj")
pbx_path(pkg, od) == project_path(pkg, od) \o <<<<"project.pbxproj">>>>

\* what a project.pbxproj left by something else holds
StaleContent == <<[isa |-> "stale"]>>

AllPbxPaths == {pbx_path(Package(h, << >>), od) : h \in PackageHeads, od \in OutputDirs}

\* the file at path holds content, the other files are untouched
FileWritten(files, path, content) ==
    [f \in DOMAIN files \cup {path} |-> IF f = path THEN content ELSE files[f]]

Ok(path) == Some([ok |-> TRUE, path |-> path])
Err(step) == Some([ok |-> FALSE, step |-> step])

-----------------------------------------------------------------------------
(* The state machine: main constructs a Generator for a package and calls  *)
(* write_pbxproj, whose steps are prepare_project_path (create_dir_all),   *)
(* pbxproj, File::create and write_all; `?` returns the first error.        *)

Init ==
    /\ pc = "main"
    /\ package = None
    /\ output_dir = None
    /\ id_base = Sha1_new
    /\ rust_targets = << >>
    /\ proj_data = None
    /\ result = None
    /\ fs_dirs = {}
    /\ \E existing \in {{}, AllPbxPaths} : fs_files = [f \in existing |-> StaleContent]
    /\ fs_before = fs_files
    /\ generated = << >>
    /\ runs = 0
    /\ meta_packages = None
    /\ stdout = << >>
    /\ stderr = << >>

\* Generator::new(package, output_dir), followed by the call of write_pbxproj
Generator_new(pkgs, ods) ==
    /\ pc = "main"
    /\ \E pkg \in pkgs, od \in ods :
          /\ package' = Some(pkg)
          /\ output_dir' = od
          /\ id_base' = Generator_new_id_base(pkg)
    /\ rust_targets' = << >>
    /\ proj_data' = None
    /\ result' = None
    /\ fs_before' = fs_files
    /\ runs' = runs + 1
    /\ pc' = "prepare_project_path"
    /\ UNCHANGED <<fs_dirs, fs_files, generated>>

\* prepare_project_path: fs::create_dir_all succeeds
prepare_project_path_ok ==
    /\ pc = "prepare_project_path"
    /\ fs_dirs' = fs_dirs \cup {project_path(package[1], output_dir)}
    /\ pc' = "pbxproj"
    /\ UNCHANGED <<package, output_dir, id_base, rust_targets, proj_data, result, fs_files,
                   fs_before, generated, runs,
                   meta_packages, stdout, stderr>>

prepare_project_path_err_continues ==
    /\ pc = "prepare_project_path"
    /\ result' = Err("create_dir_all")
    /\ pc' = "pbxproj"
    /\ UNCHANGED <<package, output_dir, id_base, rust_targets, proj_data, fs_dirs, fs_files,
                   fs_before, generated, runs,
                   meta_packages, stdout, stderr>>

\* prepare_project_path: fs::create_dir_all fails and `?` returns the error
prepare_project_path_err ==
    /\ pc = "prepare_project_path"
    /\ result' = Err("create_dir_all")
    /\ pc' = "failed"
    /\ UNCHANGED <<package, output_dir, id_base, rust_targets, proj_data, fs_dirs, fs_files,
                   fs_before, generated, runs,
                   meta_packages, stdout, stderr>>

\* let proj_data = self.pbxproj()?
pbxproj_call ==
    /\ pc = "pbxproj"
    /\ rust_targets' = project_targets(package[1])
    /\ LET doc == pbxproj(id_base, package[1], output_dir)
       IN  /\ proj_data' = Some(doc)
           /\ generated' = Append(generated,
                  [package |-> package[1], output_dir |-> output_dir, doc |-> doc])
    /\ pc' = "File_create"
    /\ UNCHANGED <<package, output_dir, id_base, result, fs_dirs, fs_files,
                   fs_before, runs,
                   meta_packages, stdout, stderr>>

\* fs::File::create succeeds: the file exists and is empty
File_create_ok ==
    /\ pc = "File_create"
    /\ fs_files' = FileWritten(fs_files, pbx_path(package[1], output_dir), << >>)
    /\ pc' = "write_all"
    /\ UNCHANGED <<package, output_dir, id_base, rust_targets, proj_data, result, fs_dirs,
                   fs_before, generated, runs,
                   meta_packages, stdout, stderr>>

\* fs::File::create fails and `?` returns the error
File_create_err ==
    /\ pc = "File_create"
    /\ result' = Err("File::create")
    /\ pc' = "failed"
    /\ UNCHANGED <<package, output_dir, id_base, rust_targets, proj_data, fs_dirs, fs_files,
                   fs_before, generated, runs,
                   meta_packages, stdout, stderr>>

\* f.write_all succeeds; write_pbxproj returns Ok(proj_path)
write_all_ok ==
    /\ pc = "write_all"
    /\ fs_files' = FileWritten(fs_files, pbx_path(package[1], output_dir),
                               as_bytes(proj_data[1]))
    /\ result' = Ok(project_path(package[1], output_dir))
    /\ pc' = "main"
    /\ UNCHANGED <<package, output_dir, id_base, rust_targets, proj_data, fs_dirs,
                   fs_before, generated, runs,
                   meta_packages, stdout, stderr>>

\* f.write_all fails after the writes before it put a proper prefix of the
\* document in the file: nothing, the first piece only, or all but the last
\* piece; `?` returns the error
write_all_err ==
    /\ pc = "write_all"
    /\ \E k \in {0, 1, Len(as_bytes(proj_data[1])) - 1} :
          fs_files' = FileWritten(fs_files, pbx_path(package[1], output_dir),
                                  SubSeq(as_bytes(proj_data[1]), 1, k))
    /\ result' = Err("write_all")
    /\ pc' = "failed"
    /\ UNCHANGED <<package, output_dir, id_base, rust_targets, proj_data, fs_dirs,
                   fs_before, generated, runs,
                   meta_packages, stdout, stderr>>

write_pbxproj ==
    \/ prepare_project_path_ok
    \/ prepare_project_path_err
    \/ pbxproj_call
    \/ File_create_ok
    \/ File_create_err
    \/ write_all_ok
    \/ write_all_err

\* main: cargo_metadata::metadata(..) returns the packages
main_metadata ==
    /\ pc = "main"
    /\ runs = 0
    /\ meta_packages = None
    /\ \E packages \in MetaPackageLists : meta_packages' = Some(packages)
    /\ UNCHANGED <<pc, package, output_dir, id_base, rust_targets, proj_data, result,
                   fs_dirs, fs_files, fs_before, generated, runs, stdout, stderr>>

\* main: filter_map(filter_package) drops the next package
main_filter_package_none ==
    /\ pc = "main"
    /\ meta_packages # None
    /\ meta_packages[1] # << >>
    /\ Len(stdout) = runs
    /\ filter_package(Head(meta_packages[1])) = None
    /\ meta_packages' = Some(Tail(meta_packages[1]))
    /\ UNCHANGED <<pc, package, output_dir, id_base, rust_targets, proj_data, result,
                   fs_dirs, fs_files, fs_before, generated, runs, stdout, stderr>>

\* main: filter_map(filter_package) keeps the next package, with its relevant
\* targets, and map's closure makes its Generator and calls write_pbxproj
main_filter_package_some ==
    /\ meta_packages # None
    /\ meta_packages[1] # << >>
    /\ Len(stdout) = runs
    /\ filter_package(Head(meta_packages[1])) # None
    /\ Generator_new({filter_package(Head(meta_packages[1]))[1]}, {None})
    /\ meta_packages' = Some(Tail(meta_packages[1]))
    /\ UNCHANGED <<stdout, stderr>>

\* main: write_pbxproj().unwrap() gave the path; println!("Written {}", ..)
main_println ==
    /\ pc = "main"
    /\ meta_packages # None
    /\ Len(stdout) < runs
    /\ stdout' = Append(stdout, <<"Written ">> \o display(result[1].path))
    /\ UNCHANGED <<pc, package, output_dir, id_base, rust_targets, proj_data, result,
                   fs_dirs, fs_files, fs_before, generated, runs, meta_packages, stderr>>

\* main: the iterator is at its end; count() is the number of packages
\* written, and the notice is printed if it is 0
main_end ==
    /\ pc = "main"
    /\ meta_packages # None
    /\ meta_packages[1] = << >>
    /\ Len(stdout) = runs
    /\ stderr' = IF runs = 0
                 THEN Append(stderr, <<"No libraries with crate-type \"staticlib\" or \"cdylib\"">>)
                 ELSE stderr
    /\ pc' = "exit"
    /\ UNCHANGED <<package, output_dir, id_base, rust_targets, proj_data, result,
                   fs_dirs, fs_files, fs_before, generated, runs, meta_packages, stdout>>

main ==
    \/ main_metadata
    \/ main_filter_package_none
    \/ main_filter_package_some
    \/ main_println
    \/ main_end

\* one Generator, for any package
Generate ==
    /\ runs = 0
    /\ meta_packages = None
    /\ Generator_new(Packages, OutputDirs)
    /\ UNCHANGED <<meta_packages, stdout, stderr>>

\* Generators one after another, as main's loop over the packages or a
\* later invocation makes them
Regenerate ==
    /\ runs < MaxRuns
    /\ Generator_new(RegenPackages, RegenOutputDirs)
    /\ UNCHANGED <<meta_packages, stdout, stderr>>

\* one Generator, for a package whose strings need escaping
GenerateQuoted ==
    /\ runs = 0
    /\ Generator_new(QuotedPackages, OutputDirs)
    /\ UNCHANGED <<meta_packages, stdout, stderr>>

Next == Generate \/ write_pbxproj

Spec == Init /\ [][Next]_vars

NextRegen == Regenerate \/ write_pbxproj

SpecRegen == Init /\ [][NextRegen]_vars

\* the two callers of the Generator: main, which filters the packages, and
\* a caller of the library with any package
NextMain == main \/ Generate \/ write_pbxproj

SpecMain == Init /\ [][NextMain]_vars

NextQuoted == GenerateQuoted \/ write_pbxproj

SpecQuoted == Init /\ [][NextQuoted]_vars

-----------------------------------------------------------------------------
(* Reading a generated document *)

\* the document the running write_pbxproj built
Doc == proj_data[1]

\* the places of a document that define an object with this id
Defs(doc, id) == {i \in DOMAIN doc.objects : doc.objects[i].id = id}

\* the object of a document with this id
Obj(doc, id) == doc.objects[CHOOSE i \in Defs(doc, id) : TRUE]

\* the objects of a document of one isa, in document order
RECURSIVE Select(_, _)
Select(objs, isa) ==
    IF objs = << >> THEN << >>
    ELSE (IF Head(objs).isa = isa THEN <<Head(objs)>> ELSE << >>)
         \o Select(Tail(objs), isa)

\* the (target, kind) places of a package whose kind is emitted
RecognizedPairs(pkg) ==
    {tk \in (DOMAIN pkg.targets) \X (1..3) :
        /\ tk[2] \in DOMAIN pkg.targets[tk[1]].kind
        /\ pkg.targets[tk[1]].kind[tk[2]] \in {"bin", "cdylib", "staticlib"}}

\* a name with every '-' turned into '_'
Normalized(n) == [i \in DOMAIN n |-> IF n[i] = "-" THEN "_" ELSE n[i]]

-----------------------------------------------------------------------------
(* Claims *)

\* C1: kind mapping.  Every XcodeTarget project_targets returned for a
\* target named n has, for kind "bin", the tool product type and build-tool
\* file name n; for kind "cdylib", file name "lib" + n with '-' as '_' +
\* ".dylib" and the dynamic-library product type; for kind "staticlib", file
\* name "lib" + normalized n + ".a", the static-library product type and
\* skip_install; skip_install is false for the other two; and every
\* recognized (target, kind) of the package has its XcodeTarget.
C1_KindMapping ==
    proj_data # None =>
        /\ \A tk \in RecognizedPairs(package[1]) :
              \E e \in DOMAIN rust_targets :
                 /\ rust_targets[e].base_name = package[1].targets[tk[1]].name
                 /\ rust_targets[e].kind = package[1].targets[tk[1]].kind[tk[2]]
        /\ \A e \in DOMAIN rust_targets :
              LET t == rust_targets[e]
                  n == t.base_name
              IN  /\ t.kind \in {"bin", "cdylib", "staticlib"}
                  /\ t.kind = "bin" =>
                        /\ t.prod_type = "com.apple.product-type.tool"
                        /\ t.cargo_file_name = n
                        /\ t.skip_install = FALSE
                  /\ t.kind = "cdylib" =>
                        /\ t.prod_type = "com.apple.product-type.library.dynamic"
                        /\ t.cargo_file_name = <<"lib">> \o Normalized(n) \o <<".dylib">>
                        /\ t.skip_install = FALSE
                  /\ t.kind = "staticlib" =>
                        /\ t.prod_type = "com.apple.product-type.library.static"
                        /\ t.cargo_file_name = <<"lib">> \o Normalized(n) \o <<".a">>
                        /\ t.skip_install = TRUE

\* C1 witness: a document was built for a package with a bin, a cdylib and
\* a staticlib, the libraries named with a hyphen
C1_Witness ==
    /\ proj_data # None
    /\ \E b, c, s \in DOMAIN rust_targets :
          /\ rust_targets[b].kind = "bin"
          /\ rust_targets[c].kind = "cdylib"
          /\ rust_targets[s].kind = "staticlib"
          /\ \E i \in DOMAIN rust_targets[c].base_name : rust_targets[c].base_name[i] = "-"

\* C2: one XcodeTarget for each (target, kind) whose kind is "bin", "cdylib"
\* or "staticlib" and none for any other kind: their number is the number of
\* recognized pairs, each XcodeTarget is one of these pairs, and the document
\* holds seven objects for each of them, nothing for a target of other kinds:
\* as many native targets, Products children and project targets as pairs.
C2_OnePerRecognizedKind ==
    proj_data # None =>
        LET pkg == package[1]
            n == Cardinality(RecognizedPairs(pkg))
            project == Obj(Doc, Doc.rootObject)
            static == \E tk \in RecognizedPairs(pkg) :
                         pkg.targets[tk[1]].kind[tk[2]] = "staticlib"
        IN  /\ Len(rust_targets) = n
            /\ \A e \in DOMAIN rust_targets :
                  \E tk \in RecognizedPairs(pkg) :
                     /\ rust_targets[e].base_name = pkg.targets[tk[1]].name
                     /\ rust_targets[e].kind = pkg.targets[tk[1]].kind[tk[2]]
            /\ Len(Select(Doc.objects, "PBXNativeTarget")) = n
            /\ Len(project.targets) = n
            /\ Len(Obj(Doc, project.productRefGroup).children) = n
            /\ Len(Doc.objects) = 10 + 7 * n + (IF static THEN 2 ELSE 0)

\* C2 witness: a document was built for a package with a target whose kinds
\* are all unrecognized and a target with a recognized and an unrecognized kind
C2_Witness ==
    /\ proj_data # None
    /\ \E i, j \in DOMAIN package[1].targets :
          /\ \A k \in DOMAIN package[1].targets[i].kind :
                package[1].targets[i].kind[k] \notin RecognizedKinds
          /\ \E k, l \in DOMAIN package[1].targets[j].kind :
                /\ package[1].targets[j].kind[k] \in RecognizedKinds
                /\ package[1].targets[j].kind[l] \notin RecognizedKinds

\* the native targets of a document, in document order
NativeTargets(doc) == Select(doc.objects, "PBXNativeTarget")

\* the seven tokens of a native target t of a document, found by following
\* its references
TokenCluster(doc, t) ==
    LET list == Obj(doc, t.buildConfigurationList)
        phase == Obj(doc, t.buildPhases[1])
    IN  [product |-> t.productReference,
         native_target |-> t.id,
         conf_list |-> list.id,
         release |-> list.buildConfigurations[1],
         debug |-> list.buildConfigurations[2],
         compile |-> phase.id,
         build_file |-> phase.files[1]]

\* the (file type, build-tool file name) of a native target t of a document
ClusterKey(doc, t) ==
    <<Obj(doc, t.productReference).explicitFileType,
      Obj(doc, Obj(doc, t.buildConfigurationList).buildConfigurations[1])
          .buildSettings["CARGO_XCODE_CARGO_FILE_NAME"]>>

\* the ten project-wide tokens of a document, found from its rootObject
ProjectTokens(doc) ==
    LET project == Obj(doc, doc.rootObject)
        main_group == Obj(doc, project.mainGroup)
        list == Obj(doc, project.buildConfigurationList)
    IN  [project |-> project.id,
         main_group |-> main_group.id,
         prod_group |-> project.productRefGroup,
         manifest |-> main_group.children[1],
         frameworks_group |-> main_group.children[3],
         conf_list |-> list.id,
         release |-> list.buildConfigurations[1],
         debug |-> list.buildConfigurations[2],
         build_rule |-> Select(doc.objects, "PBXBuildRule")[1].id,
         lipo_script |-> Select(doc.objects, "PBXShellScriptBuildPhase")[1].id]

\* C3: determinism.  Any two calls of pbxproj, by Generators made one after
\* another, for the same package (identity, name, manifest path, ordered
\* target list) and the same output directory return the same document,
\* whatever was generated or written before.
C3_Determinism ==
    \A i, j \in DOMAIN generated :
        (/\ generated[i].package = generated[j].package
         /\ generated[i].output_dir = generated[j].output_dir)
        => as_bytes(generated[i].doc) = as_bytes(generated[j].doc)

\* C3 witness: pbxproj ran twice for the same package, which has targets,
\* the second time with the first document on disk
C3_Witness ==
    /\ Len(generated) = 2
    /\ generated[1].package = generated[2].package
    /\ generated[1].output_dir = generated[2].output_dir
    /\ Len(NativeTargets(generated[2].doc)) >= 2
    /\ pbx_path(package[1], output_dir) \in DOMAIN fs_before
    /\ fs_before[pbx_path(package[1], output_dir)] = as_bytes(generated[1].doc)

\* C4: identifier stability.  In any two documents generated for the same
\* package identity the ten project-wide tokens are the same, and a target
\* with the same (file type, build-tool file name) has the same seven tokens,
\* whatever the other targets of the two target lists are and in whatever order.
C4_IdentifierStability ==
    \A i, j \in DOMAIN generated :
        (i < j /\ generated[i].package.id = generated[j].package.id) =>
            LET d == generated[i].doc
                e == generated[j].doc
                dts == NativeTargets(d)
                ets == NativeTargets(e)
                dkeys == [a \in DOMAIN dts |-> ClusterKey(d, dts[a])]
                ekeys == [b \in DOMAIN ets |-> ClusterKey(e, ets[b])]
            IN  /\ ProjectTokens(d) = ProjectTokens(e)
                /\ \A a \in DOMAIN dts, b \in DOMAIN ets :
                      dkeys[a] = ekeys[b]
                      => TokenCluster(d, dts[a]) = TokenCluster(e, ets[b])

\* C4 witness: two documents of one package identity whose target lists
\* differ (a target added or removed, or the targets in another order) and
\* share a target
C4_Witness ==
    \E i, j \in DOMAIN generated :
        /\ generated[i].package.id = generated[j].package.id
        /\ generated[i].package.targets # generated[j].package.targets
        /\ Len(generated[i].package.targets) = 2
        /\ \E a \in DOMAIN NativeTargets(generated[i].doc),
              b \in DOMAIN NativeTargets(generated[j].doc) :
              /\ a # b
              /\ ClusterKey(generated[i].doc, NativeTargets(generated[i].doc)[a])
                 = ClusterKey(generated[j].doc, NativeTargets(generated[j].doc)[b])

\* C5: uniqueness.  With the digest injective on the bytes hashed, no two
\* objects defined in a generated document have the same identifier: the ten
\* project-wide tokens and the seven tokens of every XcodeTarget (and the two
\* libresolv identifiers) are pairwise distinct, for every package of up to
\* MaxTargets targets of mixed kinds.
C5_UniqueIdentifiers ==
    proj_data # None =>
        \A a, b \in DOMAIN Doc.objects :
            a # b => Doc.objects[a].id # Doc.objects[b].id

\* C5 witness: a document with a bin, a cdylib and a staticlib target
C5_Witness ==
    /\ proj_data # None
    /\ Len(Doc.objects) >= 10 + 7 * 3
    /\ {rust_targets[e].kind : e \in DOMAIN rust_targets} = {"bin", "cdylib", "staticlib"}

\* C6: static dependency conditionality.  The libresolv file reference
\* (ADDEDBA66A6E1), its group (ADDEDBA66A6E2) and the listing of that group
\* as a child of another group are all in the document if some XcodeTarget
\* has the static-library product type, and none of the three is otherwise.
C6_StaticDependencyConditionality ==
    proj_data # None =>
        LET static == \E e \in DOMAIN rust_targets :
                         rust_targets[e].prod_type = "com.apple.product-type.library.static"
            reference == \E i \in DOMAIN Doc.objects :
                            /\ Doc.objects[i].id = <<"ADDEDBA66A6E1">>
                            /\ Doc.objects[i].isa = "PBXFileReference"
            group == \E i \in DOMAIN Doc.objects :
                        /\ Doc.objects[i].id = <<"ADDEDBA66A6E2">>
                        /\ Doc.objects[i].isa = "PBXGroup"
                        /\ Doc.objects[i].children = <<<<"ADDEDBA66A6E1">>>>
            listed == \E i \in DOMAIN Doc.objects :
                         /\ Doc.objects[i].isa = "PBXGroup"
                         /\ Doc.objects[i].id # <<"ADDEDBA66A6E2">>
                         /\ \E c \in DOMAIN Doc.objects[i].children :
                               Doc.objects[i].children[c] = <<"ADDEDBA66A6E2">>
        IN  /\ static => (reference /\ group /\ listed)
            /\ ~static => (~reference /\ ~group /\ ~listed)

\* C6 witness: a document of a package with a staticlib and a cdylib
C6_Witness ==
    /\ proj_data # None
    /\ \E e, f \in DOMAIN rust_targets :
          /\ rust_targets[e].kind = "staticlib"
          /\ rust_targets[f].kind = "cdylib"
    /\ Defs(Doc, <<"ADDEDBA66A6E1">>) # {}

\* C7: configuration pairing.  Every XCConfigurationList of the document,
\* the project-wide one and one for each XcodeTarget, lists exactly two
\* configurations, each defined once in the document and the two distinct,
\* the first named Release and the second Debug, with
\* defaultConfigurationName = Release and defaultConfigurationIsVisible = 0.
C7_ConfigurationPairing ==
    proj_data # None =>
        LET lists == Select(Doc.objects, "XCConfigurationList")
        IN  /\ Len(lists) = 1 + Len(rust_targets)
            /\ \A l \in DOMAIN lists :
                  LET confs == lists[l].buildConfigurations
                  IN  /\ Len(confs) = 2
                      /\ confs[1] # confs[2]
                      /\ \A c \in 1..2 :
                            /\ Cardinality(Defs(Doc, confs[c])) = 1
                            /\ Obj(Doc, confs[c]).isa = "XCBuildConfiguration"
                      /\ Obj(Doc, confs[1]).name = <<"Release">>
                      /\ Obj(Doc, confs[2]).name = <<"Debug">>
                      /\ lists[l].defaultConfigurationName = <<"Release">>
                      /\ lists[l].defaultConfigurationIsVisible = 0

\* C7 witness: a document with the project-wide configuration list and the
\* lists of two targets
C7_Witness ==
    /\ proj_data # None
    /\ Len(rust_targets) >= 2
    /\ Len(Select(Doc.objects, "XCConfigurationList")) >= 3

\* the place of a recognized (target, kind) among the recognized pairs of a
\* package, in target order and, within a target, in the order of its kinds
PlaceOf(pkg, tk) ==
    Cardinality({uv \in RecognizedPairs(pkg) :
                    uv[1] < tk[1] \/ (uv[1] = tk[1] /\ uv[2] <= tk[2])})

\* C8: the children of the Products group are the product tokens and the
\* targets of the project object are the native-target tokens of the
\* XcodeTargets, both in the order of the target list (kinds in declared
\* order within a target): both lists are as long as the XcodeTargets are
\* many, and entry i of each belongs to the i-th recognized (target, kind).
C8_ProductsAndTargetsInOrder ==
    proj_data # None =>
        LET pkg == package[1]
            project == Obj(Doc, Doc.rootObject)
            children == Obj(Doc, project.productRefGroup).children
        IN  /\ Len(children) = Cardinality(RecognizedPairs(pkg))
            /\ Len(project.targets) = Cardinality(RecognizedPairs(pkg))
            /\ \A tk \in RecognizedPairs(pkg) :
                  LET i == PlaceOf(pkg, tk)
                      name == pkg.targets[tk[1]].name
                      kind == pkg.targets[tk[1]].kind[tk[2]]
                      native == Obj(Doc, project.targets[i])
                      product == Obj(Doc, children[i])
                  IN  /\ native.isa = "PBXNativeTarget"
                      /\ native.name = name \o <<"-", kind>>
                      /\ native.productReference = children[i]
                      /\ product.isa = "PBXFileReference"
                      /\ product.name = native.productName
                      /\ product.explicitFileType =
                            <<CASE kind = "bin" -> "compiled.mach-o.executable"
                                [] kind = "cdylib" -> "compiled.mach-o.dylib"
                                [] kind = "staticlib" -> "archive.ar">>

\* C8 witness: a document for two targets, the first with two emitted
\* kinds, so three products and native targets
C8_Witness ==
    /\ proj_data # None
    /\ Len(package[1].targets) = 2
    /\ Cardinality({tk \in RecognizedPairs(package[1]) : tk[1] = 1}) = 2
    /\ Len(Obj(Doc, Obj(Doc, Doc.rootObject).productRefGroup).children) = 3

\* C9: no partial write.  When write_pbxproj has failed at any step, the
\* file project.pbxproj either does not exist and did not exist before the
\* call, or holds exactly what it held before the call.
C9_NoPartialWrite ==
    pc = "failed" =>
        LET path == pbx_path(package[1], output_dir)
        IN  \/ path \notin DOMAIN fs_before /\ path \notin DOMAIN fs_files
            \/ /\ path \in DOMAIN fs_before
               /\ path \in DOMAIN fs_files
               /\ fs_files[path] = fs_before[path]

\* the build settings that state the compatibility version of a dynamic library
CompatibilityVersionSettings == {"DYLIB_COMPATIBILITY_VERSION"}

\* C10: for every cdylib XcodeTarget, the Release and the Debug configuration
\* of the target carry a compatibility-version setting if the major version
\* of the package is not 1, and none if it is 1.
C10_CompatibilityVersion ==
    proj_data # None =>
        \A t \in DOMAIN NativeTargets(Doc) :
            LET native == NativeTargets(Doc)[t]
                confs == Obj(Doc, native.buildConfigurationList).buildConfigurations
            IN  native.productType = <<"com.apple.product-type.library.dynamic">> =>
                    \A c \in DOMAIN confs :
                        (package[1].version_major # 1)
                        <=> (DOMAIN Obj(Doc, confs[c]).buildSettings
                             \cap CompatibilityVersionSettings # {})

\* the set of the seven tokens of a native target t of a document
ClusterTokens(doc, t) ==
    LET c == TokenCluster(doc, t) IN {c[f] : f \in DOMAIN c}

\* C11: the token clusters of two different XcodeTargets of one package are
\* disjoint: none of the seven tokens of a native target (product, native
\* target, configuration list, Release, Debug, compile phase, manifest
\* build file) is one of the seven of another, also when the two come from
\* one target name with different kinds; and the seven are distinct.
C11_ClustersDisjoint ==
    proj_data # None =>
        LET ts == NativeTargets(Doc)
        IN  /\ Len(ts) = Len(rust_targets)
            /\ \A a \in DOMAIN ts : Cardinality(ClusterTokens(Doc, ts[a])) = 7
            /\ \A a, b \in DOMAIN ts :
                  a # b => ClusterTokens(Doc, ts[a]) \cap ClusterTokens(Doc, ts[b]) = {}

\* C11 witness: a document for one target with the kinds staticlib and
\* cdylib and a bin target of the same name
C11_Witness ==
    /\ proj_data # None
    /\ \E c, s, b \in DOMAIN rust_targets :
          /\ rust_targets[c].kind = "cdylib"
          /\ rust_targets[s].kind = "staticlib"
          /\ rust_targets[b].kind = "bin"
          /\ rust_targets[c].base_name = rust_targets[s].base_name
          /\ rust_targets[b].base_name = rust_targets[s].base_name

\* the files of the filesystem that are in a directory
FilesIn(dir) ==
    {f \in DOMAIN fs_files : SubSeq(f, 1, Len(f) - 1) = dir}

\* C12: when write_pbxproj has returned Ok, the path it returned is a
\* directory that exists, named "<package name>.xcodeproj" (a Generator is
\* given a package and an output directory, never another project name), in
\* the output directory when one was given and in the directory of the
\* manifest otherwise; and the one file in it is "project.pbxproj", which
\* holds the document.
C12_ProjectDirectory ==
    (result # None /\ result[1].ok) =>
        LET dir == result[1].path
            pkg == package[1]
            parent == SubSeq(dir, 1, Len(dir) - 1)
        IN  /\ dir \in fs_dirs
            /\ dir[Len(dir)] = pkg.name \o <<".xcodeproj">>
            /\ output_dir # None => parent = output_dir[1]
            /\ output_dir = None =>
                  parent \o <<<<"Cargo.toml">>>> = pkg.manifest_path
            /\ FilesIn(dir) = {dir \o <<<<"project.pbxproj">>>>}
            /\ fs_files[dir \o <<<<"project.pbxproj">>>>] = as_bytes(proj_data[1])

\* C12 witness: write_pbxproj returned Ok for a Generator with an output
\* directory that is not the directory of the manifest
C12_Witness ==
    /\ result # None
    /\ result[1].ok
    /\ output_dir # None
    /\ output_dir[1] \o <<<<"Cargo.toml">>>> # package[1].manifest_path
    /\ Len(rust_targets) > 0

\* What a reader of the document takes a quoted text for: the characters
\* after the opening quote up to the first quote that no backslash escapes, a
\* backslash giving the character after it ("n": a newline); None if that
\* quote is not the last character of the text or is missing.
RECURSIVE ReadQuoted(_, _, _)
ReadQuoted(text, i, acc) ==
    IF i > Len(text) THEN None
    ELSE IF text[i] = "\"" THEN (IF i = Len(text) THEN Some(acc) ELSE None)
    ELSE IF text[i] = "\\"
         THEN (IF i + 1 > Len(text) THEN None
               ELSE ReadQuoted(text, i + 2,
                        Append(acc, IF text[i + 1] = "n" THEN "\n" ELSE text[i + 1])))
    ELSE ReadQuoted(text, i + 1, Append(acc, text[i]))

\* C13: every string of the package that the document holds in a
\* double-quoted value (target name, product name, file names, compiler
\* flags, package name, manifest path) and the script are written with
\* their double quotes, backslashes and newlines escaped: the text of each
\* quoted value reads back, up to its closing quote, as the value.
C13_QuotedValuesEscaped ==
    proj_data # None =>
        \A i \in DOMAIN Doc.objects :
            \A q \in quoted_fields(Doc.objects[i]) :
                /\ q.text[1] = "\""
                /\ ReadQuoted(q.text, 2, << >>) = Some(q.value)

\* a list of strings with a comma between each two
RECURSIVE CommaSeparated(_)
CommaSeparated(list) ==
    IF list = << >> THEN << >>
    ELSE IF Len(list) = 1 THEN Head(list)
    ELSE Head(list) \o <<",">> \o CommaSeparated(Tail(list))

\* C14: compiler flags.  For the i-th recognized (target, kind) of the
\* package, the XcodeTarget and the COMPILER_FLAGS of the manifest build
\* file of the i-th native target are: for kind bin named n, "--bin n",
\* followed by " --features '<required features, comma separated>'" if and
\* only if the target has required features; for cdylib and staticlib,
\* "--lib" whatever the required features are.
C14_CompilerFlags ==
    proj_data # None =>
        \A tk \in RecognizedPairs(package[1]) :
            LET target == package[1].targets[tk[1]]
                kind == target.kind[tk[2]]
                i == PlaceOf(package[1], tk)
                native == Obj(Doc, Obj(Doc, Doc.rootObject).targets[i])
                build_file == Obj(Doc, TokenCluster(Doc, native).build_file)
                flags == IF kind = "bin"
                         THEN <<"--bin ">> \o target.name
                              \o (IF target.required_features # << >>
                                  THEN <<" --features '">>
                                       \o CommaSeparated(target.required_features)
                                       \o <<"'">>
                                  ELSE << >>)
                         ELSE <<"--lib">>
            IN  /\ rust_targets[i].compiler_flags = flags
                /\ build_file.isa = "PBXBuildFile"
                /\ DOMAIN build_file.settings = {"COMPILER_FLAGS"}
                /\ build_file.settings["COMPILER_FLAGS"] = flags

\* C14 witness: a document for a bin target with two required features and
\* a library target with a required feature
C14_Witness ==
    /\ proj_data # None
    /\ \E i, j \in DOMAIN package[1].targets :
          /\ package[1].targets[i].kind = <<"bin">>
          /\ Len(package[1].targets[i].required_features) = 2
          /\ package[1].targets[j].kind = <<"cdylib", "staticlib">>
          /\ package[1].targets[j].required_features # << >>

\* C15: kind-specific settings.  For the i-th recognized (target, kind),
\* named n, the Release and the Debug configuration of the i-th native
\* target have: for a staticlib, SUPPORTED_PLATFORMS "macosx iphonesimulator
\* iphoneos appletvsimulator appletvos", PRODUCT_NAME n + "_static" and
\* SKIP_INSTALL = YES; for a bin or a cdylib, SUPPORTED_PLATFORMS "macosx",
\* PRODUCT_NAME n and no SKIP_INSTALL setting.
C15_KindSpecificSettings ==
    proj_data # None =>
        \A tk \in RecognizedPairs(package[1]) :
            LET target == package[1].targets[tk[1]]
                kind == target.kind[tk[2]]
                native == Obj(Doc, Obj(Doc, Doc.rootObject).targets[PlaceOf(package[1], tk)])
                cluster == TokenCluster(Doc, native)
            IN  \A c \in {cluster.release, cluster.debug} :
                    LET settings == Obj(Doc, c).buildSettings
                    IN  IF kind = "staticlib"
                        THEN /\ settings["SUPPORTED_PLATFORMS"] =
                                   <<"macosx iphonesimulator iphoneos appletvsimulator appletvos">>
                             /\ settings["PRODUCT_NAME"] = target.name \o <<"_static">>
                             /\ "SKIP_INSTALL" \in DOMAIN settings
                             /\ settings["SKIP_INSTALL"] = <<"YES">>
                        ELSE /\ settings["SUPPORTED_PLATFORMS"] = <<"macosx">>
                             /\ settings["PRODUCT_NAME"] = target.name
                             /\ "SKIP_INSTALL" \notin DOMAIN settings

\* C15 witness: a document for a staticlib and a cdylib of one target and a bin
C15_Witness ==
    /\ proj_data # None
    /\ {rust_targets[e].kind : e \in DOMAIN rust_targets} = {"bin", "cdylib", "staticlib"}
    /\ \E i \in DOMAIN Doc.objects :
          /\ Doc.objects[i].isa = "XCBuildConfiguration"
          /\ "SKIP_INSTALL" \in DOMAIN Doc.objects[i].buildSettings
          /\ Doc.objects[i].name = <<"Debug">>

\* C16: filesystem failures are surfaced.  write_pbxproj has failed exactly
\* when it has returned Err, the error of create_dir_all, File::create or
\* write_all; after the error of create_dir_all no document was built and no
\* file was created or written, after the error of File::create no file was
\* written; while its steps run it has returned nothing; and it has returned
\* Ok, with the path of the project directory, only with the whole document
\* in project.pbxproj.
C16_FailuresSurfaced ==
    /\ pc = "failed" <=> (result # None /\ ~result[1].ok)
    /\ pc = "failed" => result[1].step \in {"create_dir_all", "File::create", "write_all"}
    /\ pc \in {"prepare_project_path", "pbxproj", "File_create", "write_all"} => result = None
    /\ result = Err("create_dir_all") =>
          /\ proj_data = None
          /\ fs_files = fs_before
    /\ result = Err("File::create") => fs_files = fs_before
    /\ (result # None /\ result[1].ok) =>
          /\ pc = "main"
          /\ result[1].path = project_path(package[1], output_dir)
          /\ fs_files[pbx_path(package[1], output_dir)] = as_bytes(proj_data[1])

\* C16 witness: File::create failed over a file left by an earlier run, for
\* a package with targets
C16_Witness ==
    /\ result = Err("File::create")
    /\ pbx_path(package[1], output_dir) \in DOMAIN fs_files
    /\ Len(rust_targets) > 0

\* the document of a Generator that is the only one of its process
LoneDocument(pkg, od) == pbxproj(Sha1_update(Sha1_new, pkg.id), pkg, od)

\* C17: package independence.  When Generators are made one after another,
\* the seed of each is the identity of its own package alone, and the
\* XcodeTargets and the document it builds are those of a Generator that
\* is the first of its process, whatever packages came before: nothing
\* computed for an earlier package is in them.  (The log of documents only
\* grows: it is compared each time pbxproj has returned.)
C17_PackageIndependence ==
    /\ package # None => id_base = package[1].id
    /\ proj_data # None =>
          /\ rust_targets = project_targets(package[1])
          /\ generated # << >>
          /\ generated[Len(generated)] =
                [package |-> package[1], output_dir |-> output_dir, doc |-> Doc]
    /\ pc = "File_create" =>
          \A j \in DOMAIN generated :
              generated[j].doc = LoneDocument(generated[j].package, generated[j].output_dir)

\* C17 witness: a second package, with targets, has its document built
\* after the document of another package with targets was written
C17_Witness ==
    /\ Len(generated) = 2
    /\ generated[1].package.id # generated[2].package.id
    /\ Len(NativeTargets(generated[1].doc)) >= 2
    /\ Len(NativeTargets(generated[2].doc)) >= 2
    /\ pbx_path(generated[1].package, generated[1].output_dir) \in DOMAIN fs_files
    /\ fs_files[pbx_path(generated[1].package, generated[1].output_dir)]
          = as_bytes(generated[1].doc)

\* C18: zero eligible targets is no error of the engine.  For a package
\* none of whose targets has the kind bin, cdylib or staticlib,
\* project_targets returned the empty list and pbxproj returned a document:
\* its project has no targets and no TargetAttributes, its Products group no
\* children, it has no native target and no libresolv object, and
\* write_pbxproj fails for it only with an error of the filesystem.  The
\* caller decides: main hands no such package to a Generator (and no target
\* without such a kind), and when it handed none it prints the notice and
\* nothing else, and no file was written.
C18_ZeroEligibleTargets ==
    /\ (proj_data # None /\ RecognizedPairs(package[1]) = {}) =>
          LET project == Obj(Doc, Doc.rootObject)
          IN  /\ rust_targets = << >>
              /\ project.targets = << >>
              /\ project.TargetAttributes = << >>
              /\ Obj(Doc, project.productRefGroup).children = << >>
              /\ NativeTargets(Doc) = << >>
              /\ Defs(Doc, <<"ADDEDBA66A6E1">>) = {}
              /\ Defs(Doc, <<"ADDEDBA66A6E2">>) = {}
              /\ pc = "failed" =>
                    result[1].step \in {"create_dir_all", "File::create", "write_all"}
    /\ meta_packages # None =>
          /\ \A j \in DOMAIN generated :
                LET targets == generated[j].package.targets
                IN  /\ targets # << >>
                    /\ \A t \in DOMAIN targets :
                          \E k \in DOMAIN targets[t].kind :
                             targets[t].kind[k] \in {"bin", "cdylib", "staticlib"}
          /\ pc = "exit" =>
                /\ Len(stdout) = runs
                /\ runs = 0 =>
                      /\ Len(stderr) = 1
                      /\ fs_files = fs_before
                      /\ fs_dirs = {}
                /\ runs > 0 => stderr = << >>

\* C18 witness: write_pbxproj returned Ok for a package whose only target
\* is a test
C18_Witness ==
    /\ result # None
    /\ result[1].ok
    /\ package[1].targets # << >>
    /\ RecognizedPairs(package[1]) = {}
    /\ Len(Doc.objects) = 10

\* the components of the text of a relative path: its pieces between '/'
RECURSIVE PathComponents(_, _)
PathComponents(text, component) ==
    IF text = << >> THEN <<component>>
    ELSE IF Head(text) = "/" THEN <<component>> \o PathComponents(Tail(text), << >>)
    ELSE PathComponents(Tail(text), Append(component, Head(text)))

\* the path that a relative path names from a directory
RECURSIVE Resolve(_, _)
Resolve(dir, components) ==
    IF components = << >> THEN dir
    ELSE IF Head(components) = <<"..">>
         THEN Resolve(SubSeq(dir, 1, Len(dir) - 1), Tail(components))
    ELSE Resolve(Append(dir, Head(components)), Tail(components))

\* the file references of a document in the source tree "<group>"
ManifestReferences(doc) ==
    {i \in DOMAIN doc.objects :
        /\ doc.objects[i].isa = "PBXFileReference"
        /\ doc.objects[i].sourceTree = <<"<group>">>}

\* C19: the document defines exactly one file reference of the manifest;
\* its path is "Cargo.toml" when the Generator has no output directory and
\* otherwise a relative path that names the manifest from the output
\* directory; it is a child of the main group; and there is one
\* PBXBuildFile for each XcodeTarget, each with this reference as fileRef.
C19_ManifestReference ==
    proj_data # None =>
        /\ Cardinality(ManifestReferences(Doc)) = 1
        /\ \A i \in ManifestReferences(Doc) :
              LET ref == Doc.objects[i]
                  main_group == Obj(Doc, Obj(Doc, Doc.rootObject).mainGroup)
                  build_files == Select(Doc.objects, "PBXBuildFile")
              IN  /\ output_dir = None => ref.path = <<"Cargo.toml">>
                  /\ output_dir # None =>
                        /\ Head(ref.path) # "/"
                        /\ Resolve(output_dir[1], PathComponents(ref.path, << >>))
                              = package[1].manifest_path
                  /\ \E c \in DOMAIN main_group.children : main_group.children[c] = ref.id
                  /\ Len(build_files) = Len(rust_targets)
                  /\ \A b \in DOMAIN build_files : build_files[b].fileRef = ref.id

\* the fields of an object that hold a list of identifiers, and those that
\* hold one
ReferenceLists ==
    {"children", "buildPhases", "buildRules", "dependencies", "files",
     "buildConfigurations", "targets", "TargetAttributes"}
ReferenceFields ==
    {"fileRef", "buildConfigurationList", "productReference", "mainGroup",
     "productRefGroup"}

\* the identifiers an object refers to
References(obj) ==
    UNION {{obj[f][i] : i \in DOMAIN obj[f]} : f \in DOMAIN obj \cap ReferenceLists}
    \cup {obj[f] : f \in DOMAIN obj \cap ReferenceFields}

\* C20: referential integrity.  Every identifier an object of the document
\* refers to (group children, buildPhases, buildRules, files, fileRef,
\* buildConfigurations, buildConfigurationList, productReference, mainGroup,
\* productRefGroup, the keys of TargetAttributes, targets) and the rootObject
\* is the identifier of exactly one object of the document, and no
\* identifier is defined twice.
C20_ReferentialIntegrity ==
    proj_data # None =>
        /\ Cardinality(Defs(Doc, Doc.rootObject)) = 1
        /\ \A i \in DOMAIN Doc.objects :
              /\ Cardinality(Defs(Doc, Doc.objects[i].id)) = 1
              /\ \A r \in References(Doc.objects[i]) : Cardinality(Defs(Doc, r)) = 1

\* C20 witness: a document with three native targets, one of them a static
\* library, so with the libresolv group and its child
C20_Witness ==
    /\ proj_data # None
    /\ Len(NativeTargets(Doc)) = 3
    /\ \E i \in DOMAIN Doc.objects :
          /\ Doc.objects[i].isa = "PBXGroup"
          /\ <<"ADDEDBA66A6E2">> \in References(Doc.objects[i])
    /\ Cardinality(UNION {References(Doc.objects[i]) : i \in DOMAIN Doc.objects}) >= 26

-----------------------------------------------------------------------------
(* C21 *)

\* the number of characters of an identifier: those of a literal, or those
\* of the literal prefix and of the run of digits after it
CharacterCount(id) ==
    IF Len(id) = 1 THEN Len(id[1]) ELSE Len(id[1]) + id[2].digits

\* an identifier of the shape make_id gives: 24 characters, "CA60" and the
\* 20 hexadecimal digits of the first 10 bytes of a digest
IsIdentifierToken(id) ==
    /\ CharacterCount(id) = 24
    /\ Len(id) = 2
    /\ id[1] = "CA60"
    /\ id[2].digits = 20
    /\ id[2].hex.first = 0
    /\ id[2].hex.bytes = 10

====
